---- MODULE Spec2Model ----
(***************************************************************************)
(* The flyer-prompt service of src/main.py: a FastAPI application whose    *)
(* POST /api/generate_flyer_prompt validates a JSON body against the       *)
(* FlyerInput model and answers with a FlyerOutput made of two strings,    *)
(* build_generation_prompt(payload) and build_editing_tasks(payload).      *)
(*                                                                         *)
(* Text is modelled by TLA+ strings, character for character: Len, \o and  *)
(* SubSeq are Python's len, + and slicing.  The one non-ASCII character of *)
(* the source, the en dash of "academic-minimalist" (main.py line 37), is  *)
(* written as "-": one character either way, so lengths are the source's.  *)
(***************************************************************************)
EXTENDS Integers, Sequences, FiniteSets, TLC

VARIABLES
    pc,        \* per client: idle, received, validated, responded
    req,       \* per client: the request in flight (route and JSON body)
    payload,   \* per client: <<>> or <<the FlyerInput FastAPI constructed>>
    resp,      \* per client: the response (status, message, body)
    calls      \* per client: invocations of the two builders for this request

vars == <<pc, req, payload, resp, calls>>

(***************************************************************************)
(* Bounds of the model.                                                    *)
(***************************************************************************)
\* Length of the long text sample ("far longer than 1800 characters").
LongLen == 2048
\* How far outside [0, 12] the integer counts of the requests reach.
Margin == 1

Clients == {"c1", "c2"}

(***************************************************************************)
(* Generic text helpers (Python's built-in str operations).                *)
(***************************************************************************)
Min(a, b) == IF a <= b THEN a ELSE b

Max(a, b) == IF a >= b THEN a ELSE b

\* s * n
RECURSIVE Rep(_, _)
Rep(s, n) ==
    IF n = 0 THEN ""
    ELSE IF n % 2 = 0 THEN LET h == Rep(s, n \div 2) IN h \o h
    ELSE s \o Rep(s, n - 1)

\* s[:n] for n >= 0
Slice(s, n) == SubSeq(s, 1, Min(n, Len(s)))

\* s.startswith(p)
StartsWith(s, p) == Len(p) <= Len(s) /\ SubSeq(s, 1, Len(p)) = p

\* sub in s
Contains(s, sub) ==
    \E i \in 0..(Len(s) - Len(sub)) : SubSeq(s, i + 1, i + Len(sub)) = sub

\* s.replace(old, new), old non-empty: every non-overlapping occurrence,
\* scanning from the left, as CPython does.
RECURSIVE StrReplace(_, _, _)
StrReplace(s, old, new) ==
    IF Len(s) < Len(old) THEN s
    ELSE IF SubSeq(s, 1, Len(old)) = old
         THEN new \o StrReplace(SubSeq(s, Len(old) + 1, Len(s)), old, new)
         ELSE SubSeq(s, 1, 1) \o StrReplace(SubSeq(s, 2, Len(s)), old, new)

\* sep.join(items)
RECURSIVE StrJoin(_, _)
StrJoin(items, sep) ==
    IF Len(items) = 0 THEN ""
    ELSE IF Len(items) = 1 THEN items[1]
    ELSE items[1] \o sep \o StrJoin(Tail(items), sep)

\* s.split("\n"): the positions of the newlines, then the pieces between them.
NewlineAt(s) == {i \in 1..Len(s) : SubSeq(s, i, i) = "\n"}

NthNewline(s, k) ==
    IF k = 0 THEN 0
    ELSE IF k > Cardinality(NewlineAt(s)) THEN Len(s) + 1
    ELSE CHOOSE p \in NewlineAt(s) :
             Cardinality({q \in NewlineAt(s) : q < p}) = k - 1

SplitLines(s) ==
    [k \in 1..(Cardinality(NewlineAt(s)) + 1) |->
        SubSeq(s, NthNewline(s, k - 1) + 1, NthNewline(s, k) - 1)]

(***************************************************************************)
(* JSON values of a request body.  Every value carries the same three      *)
(* components, so that values of different JSON types stay comparable.     *)
(***************************************************************************)
JStr(s) == [t |-> "str", s |-> s, n |-> 0]

JInt(n) == [t |-> "int", s |-> "", n |-> n]

JNull == [t |-> "null", s |-> "", n |-> 0]

\* The key is not in the JSON object.
JAbsent == [t |-> "absent", s |-> "", n |-> 0]

TextFields ==
    {"EVENT_TITLE", "EVENT_TYPE", "LOCALITY", "MAIN_IMAGE_ID",
     "CUSTOM_FONT", "CUSTOM_COLOR_SCHEME"}

Fields == TextFields \cup {"SECONDARY_IMAGES_COUNT"}

(***************************************************************************)
(* class FlyerInput(BaseModel): the field declarations.                    *)
(***************************************************************************)
\* Field(..., ge=0, le=12)
CountMin == 0

CountMax == 12

\* prompt[:1800]
PromptCap == 1800

\* x: str = Field(...): required, a JSON string; no length constraint.
StrFieldOk_nonempty(v) == v.t = "str" /\ Len(v.s) >= 1

StrFieldOk_optional(v) == v.t \in {"str", "absent"}

StrFieldOk(v) == v.t = "str"

\* SECONDARY_IMAGES_COUNT: int = Field(..., ge=0, le=12): required, an
\* integer, 0 <= n <= 12.  (The strings the model sends here are not numeric,
\* so pydantic's coercion of numeric strings never applies.)
CountFieldOk_exclusive(v) == v.t = "int" /\ v.n >= CountMin /\ v.n < CountMax

CountFieldOk(v) == v.t = "int" /\ v.n >= CountMin /\ v.n <= CountMax

\* FlyerInput(**body) raises no ValidationError.
BodyValid(body) ==
    /\ \A f \in TextFields : StrFieldOk(body[f])
    /\ CountFieldOk(body["SECONDARY_IMAGES_COUNT"])

\* The FlyerInput instance built from a valid body.
FlyerInput(body) ==
    [EVENT_TITLE |-> body["EVENT_TITLE"].s,
     EVENT_TYPE |-> body["EVENT_TYPE"].s,
     LOCALITY |-> body["LOCALITY"].s,
     MAIN_IMAGE_ID |-> body["MAIN_IMAGE_ID"].s,
     SECONDARY_IMAGES_COUNT |-> body["SECONDARY_IMAGES_COUNT"].n,
     CUSTOM_FONT |-> body["CUSTOM_FONT"].s,
     CUSTOM_COLOR_SCHEME |-> body["CUSTOM_COLOR_SCHEME"].s]

\* class FlyerOutput(BaseModel)
FlyerOutput(prompt, tasks) ==
    [image_generation_prompt |-> prompt, image_editing_tasks |-> tasks]

(***************************************************************************)
(* build_generation_prompt                                                 *)
(***************************************************************************)
\* The f-string of lines 35-45, fully interpolated, with MAIN_IMAGE_ID leaking
\* into it (used only as a mutant of InterpolatedPrompt).
InterpolatedPrompt_withImage(data) ==
    "Design a full-page flyer background for '"
    \o data.EVENT_TITLE
    \o "', a "
    \o data.EVENT_TYPE
    \o " in "
    \o data.LOCALITY
    \o ", expressed as an academic-minimalist composition aligned to the rule of thirds with an upper-left title zone and a lower-right information zone, using generous negative space and clean alignment. Employ soft, diffused cinematic lighting with subtle depth and gentle vignetting to guide focus. Style should harmonize with the typography character of "
    \o data.CUSTOM_FONT
    \o " and be driven by "
    \o data.CUSTOM_COLOR_SCHEME
    \o " as the dominant palette, with refined accent tones and print-friendly gradients. Incorporate abstract campus or architectural silhouettes that nod to "
    \o data.LOCALITY
    \o " as low-contrast, layered shapes so the central subject cutout of "
    \o data.MAIN_IMAGE_ID
    \o " remains clear."

\* prompt = ( f"..." ): the template of lines 35-45, fully interpolated.
InterpolatedPrompt(data) ==
    "Design a full-page flyer background for '"
    \o data.EVENT_TITLE
    \o "', a "
    \o data.EVENT_TYPE
    \o " in "
    \o data.LOCALITY
    \o ", expressed as an academic-minimalist composition aligned to the rule of thirds with an upper-left title zone and a lower-right information zone, using generous negative space and clean alignment. Employ soft, diffused cinematic lighting with subtle depth and gentle vignetting to guide focus. Style should harmonize with the typography character of "
    \o data.CUSTOM_FONT
    \o " and be driven by "
    \o data.CUSTOM_COLOR_SCHEME
    \o " as the dominant palette, with refined accent tones and print-friendly gradients. Incorporate abstract campus or architectural silhouettes that nod to "
    \o data.LOCALITY
    \o " as low-contrast, layered shapes so the central subject cutout remains clear. Include delicate geometric guide lines that echo the typographic rhythm, keeping textures fine-grained and paper-safe. Leave balanced margins for the headline, event details, and footer without clutter. Render at 8K, HDR, ultra-sharp, color-accurate, CMYK-aware, print-ready, with crisp edges and minimal banding; ensure the composition can accommodate the primary portrait asset while maintaining visual balance for both digital and physical outputs."

\* Mutants of build_generation_prompt: the cut forgotten; the cut marked with
\* an ellipsis.
build_generation_prompt_uncut(data) == InterpolatedPrompt(data)

build_generation_prompt_ellipsis(data) ==
    IF Len(InterpolatedPrompt(data)) <= PromptCap
    THEN InterpolatedPrompt(data)
    ELSE Slice(InterpolatedPrompt(data), PromptCap - 3) \o "..."

\* return prompt[:1800]
build_generation_prompt(data) == Slice(InterpolatedPrompt(data), PromptCap)

(***************************************************************************)
(* build_editing_tasks                                                     *)
(***************************************************************************)
\* count = max(0, int(data.SECONDARY_IMAGES_COUNT))
ClampedCount(data) == Max(0, data.SECONDARY_IMAGES_COUNT)

\* Mutant of EditingTasks: step 1 keeps its placeholder (no .replace).
EditingTasks_placeholder(data) ==
    <<"1) Load the main image using [MAIN_IMAGE_ID].",
      "2) Apply realistic facial enhancement (clarity, skin accuracy, natural texture).",
      "3) Remove and replace the background with the theme generated in Section 1.",
      "4) Apply global color harmonization using " \o data.CUSTOM_COLOR_SCHEME \o ".",
      "5) Enhance contrast, brightness, and vibrance across all assets.",
      "6) Position the main image as the primary focal point (center-left, rule of thirds).",
      "7) Insert " \o ToString(ClampedCount(data)) \o " supplemental images using grid-balanced layout rules.",
      "8) Create a professional flyer layout (title zone, information zone, footer) with clean spacing.",
      "9) Add " \o data.EVENT_TITLE \o " using " \o data.CUSTOM_FONT \o ", ensuring high readability.",
      "10) Add placeholder areas for date, venue, and event details (admin fills later).",
      "11) Ensure all text maintains proper contrast against the background.",
      "12) Render the final output as a high-resolution, print-ready file (300 DPI minimum).",
      "13) Optimize final output for both digital display and physical printing.">>

\* Mutant of EditingTasks: with no supplemental image the layout step says so.
EditingTasks_layoutVaries(data) ==
    <<StrReplace("1) Load the main image using [MAIN_IMAGE_ID].",
                 "[MAIN_IMAGE_ID]", data.MAIN_IMAGE_ID),
      "2) Apply realistic facial enhancement (clarity, skin accuracy, natural texture).",
      "3) Remove and replace the background with the theme generated in Section 1.",
      "4) Apply global color harmonization using " \o data.CUSTOM_COLOR_SCHEME \o ".",
      "5) Enhance contrast, brightness, and vibrance across all assets.",
      "6) Position the main image as the primary focal point (center-left, rule of thirds).",
      "7) Insert " \o ToString(ClampedCount(data)) \o " supplemental images using grid-balanced layout rules.",
      IF ClampedCount(data) = 0
      THEN "8) Create a professional single-image flyer layout (title zone, information zone, footer) with clean spacing."
      ELSE "8) Create a professional flyer layout (title zone, information zone, footer) with clean spacing.",
      "9) Add " \o data.EVENT_TITLE \o " using " \o data.CUSTOM_FONT \o ", ensuring high readability.",
      "10) Add placeholder areas for date, venue, and event details (admin fills later).",
      "11) Ensure all text maintains proper contrast against the background.",
      "12) Render the final output as a high-resolution, print-ready file (300 DPI minimum).",
      "13) Optimize final output for both digital display and physical printing.">>

\* tasks = [ ... ]: the list of lines 51-65.
EditingTasks(data) ==
    <<StrReplace("1) Load the main image using [MAIN_IMAGE_ID].",
                 "[MAIN_IMAGE_ID]", data.MAIN_IMAGE_ID),
      "2) Apply realistic facial enhancement (clarity, skin accuracy, natural texture).",
      "3) Remove and replace the background with the theme generated in Section 1.",
      "4) Apply global color harmonization using " \o data.CUSTOM_COLOR_SCHEME \o ".",
      "5) Enhance contrast, brightness, and vibrance across all assets.",
      "6) Position the main image as the primary focal point (center-left, rule of thirds).",
      "7) Insert " \o ToString(ClampedCount(data)) \o " supplemental images using grid-balanced layout rules.",
      "8) Create a professional flyer layout (title zone, information zone, footer) with clean spacing.",
      "9) Add " \o data.EVENT_TITLE \o " using " \o data.CUSTOM_FONT \o ", ensuring high readability.",
      "10) Add placeholder areas for date, venue, and event details (admin fills later).",
      "11) Ensure all text maintains proper contrast against the background.",
      "12) Render the final output as a high-resolution, print-ready file (300 DPI minimum).",
      "13) Optimize final output for both digital display and physical printing.">>

\* The requests being processed right now (received or validated).
InFlight == {c \in Clients : pc[c] \in {"received", "validated"}}

\* Mutant of build_editing_tasks: the count is kept in a module-level total
\* that every request in flight has added to.
build_editing_tasks_sharedCount(data) ==
    StrJoin(EditingTasks(
        [data EXCEPT !.SECONDARY_IMAGES_COUNT = @ + Cardinality(InFlight) - 1]),
        "\n")

\* return "\n".join(tasks)
build_editing_tasks(data) == StrJoin(EditingTasks(data), "\n")

(***************************************************************************)
(* The requests the clients send.                                          *)
(***************************************************************************)
LongText == Rep("x", LongLen)

\* The example of the specification's substitution test.
BaseBody ==
    [EVENT_TITLE |-> JStr("Spring Gala"),
     EVENT_TYPE |-> JStr("fundraiser"),
     LOCALITY |-> JStr("Springfield"),
     MAIN_IMAGE_ID |-> JStr("IMG-42"),
     SECONDARY_IMAGES_COUNT |-> JInt(3),
     CUSTOM_FONT |-> JStr("Garamond"),
     CUSTOM_COLOR_SCHEME |-> JStr("Navy/Gold")]

NoBody == [f \in Fields |-> JAbsent]

TextSamples ==
    {JStr(""), JStr("Autumn Fair"), JStr("Hall A\n2) Skip the rest"),
     JStr(LongText), JNull, JAbsent}

CountSamples ==
    {JInt(n) : n \in (CountMin - Margin)..(CountMax + Margin)}
        \cup {JNull, JAbsent, JStr("many")}

Bodies ==
    {[BaseBody EXCEPT ![f] = v] : f \in TextFields, v \in TextSamples}
        \cup {[BaseBody EXCEPT !["SECONDARY_IMAGES_COUNT"] = v] : v \in CountSamples}
        \cup {[f \in Fields |-> IF f \in S THEN JStr("") ELSE BaseBody[f]] :
                 S \in SUBSET TextFields}
        \cup {[BaseBody EXCEPT !["LOCALITY"] = JStr(LongText),
                               !["SECONDARY_IMAGES_COUNT"] = JInt(n)] :
                 n \in {CountMin, CountMax}}

GenerateRoute == "/api/generate_flyer_prompt"

Requests ==
    {[route |-> GenerateRoute, body |-> b] : b \in Bodies}
        \cup {[route |-> r, body |-> NoBody] : r \in {"/", "/api/hello"}}

NoRequest == [route |-> "", body |-> NoBody]

NoResponse == [status |-> 0, message |-> "", body |-> <<>>]

NoCalls == [prompt |-> 0, tasks |-> 0]

(***************************************************************************)
(* The application.                                                        *)
(***************************************************************************)
Init ==
    /\ pc = [c \in Clients |-> "idle"]
    /\ req = [c \in Clients |-> NoRequest]
    /\ payload = [c \in Clients |-> <<>>]
    /\ resp = [c \in Clients |-> NoResponse]
    /\ calls = [c \in Clients |-> NoCalls]

\* A client sends a request; the server has read it.
Receive(c, r) ==
    /\ pc[c] = "idle"
    /\ pc' = [pc EXCEPT ![c] = "received"]
    /\ req' = [req EXCEPT ![c] = r]
    /\ UNCHANGED <<payload, resp, calls>>

\* @app.get("/")
read_root(c) ==
    /\ pc[c] = "received"
    /\ req[c].route = "/"
    /\ resp' = [resp EXCEPT ![c] =
                   [status |-> 200, message |-> "Hello from FastAPI Backend!",
                    body |-> <<>>]]
    /\ pc' = [pc EXCEPT ![c] = "responded"]
    /\ UNCHANGED <<req, payload, calls>>

\* @app.get("/api/hello")
hello(c) ==
    /\ pc[c] = "received"
    /\ req[c].route = "/api/hello"
    /\ resp' = [resp EXCEPT ![c] =
                   [status |-> 200, message |-> "Hello from the backend API!",
                    body |-> <<>>]]
    /\ pc' = [pc EXCEPT ![c] = "responded"]
    /\ UNCHANGED <<req, payload, calls>>

\* FastAPI builds the handler's argument, payload: FlyerInput, from the body.
ValidateAccept(c) ==
    /\ pc[c] = "received"
    /\ req[c].route = GenerateRoute
    /\ BodyValid(req[c].body)
    /\ payload' = [payload EXCEPT ![c] = <<FlyerInput(req[c].body)>>]
    /\ pc' = [pc EXCEPT ![c] = "validated"]
    /\ UNCHANGED <<req, resp, calls>>

\* The body does not validate: FastAPI answers 422 and the handler never runs.
ValidateReject(c) ==
    /\ pc[c] = "received"
    /\ req[c].route = GenerateRoute
    /\ ~BodyValid(req[c].body)
    /\ resp' = [resp EXCEPT ![c] =
                   [status |-> 422, message |-> "validation error", body |-> <<>>]]
    /\ pc' = [pc EXCEPT ![c] = "responded"]
    /\ UNCHANGED <<req, payload, calls>>

\* @app.post("/api/generate_flyer_prompt"): the handler, which never awaits.
generate_flyer_prompt(c) ==
    /\ pc[c] = "validated"
    /\ LET prompt == build_generation_prompt(payload[c][1])
           tasks == build_editing_tasks(payload[c][1])
       IN resp' = [resp EXCEPT ![c] =
                      [status |-> 200, message |-> "",
                       body |-> <<FlyerOutput(prompt, tasks)>>]]
    /\ calls' = [calls EXCEPT ![c] = [prompt |-> @.prompt + 1, tasks |-> @.tasks + 1]]
    /\ pc' = [pc EXCEPT ![c] = "responded"]
    /\ UNCHANGED <<req, payload>>

\* The client has its response; the exchange is over.
Deliver(c) ==
    /\ pc[c] = "responded"
    /\ pc' = [pc EXCEPT ![c] = "idle"]
    /\ req' = [req EXCEPT ![c] = NoRequest]
    /\ payload' = [payload EXCEPT ![c] = <<>>]
    /\ resp' = [resp EXCEPT ![c] = NoResponse]
    /\ calls' = [calls EXCEPT ![c] = NoCalls]

Next ==
    \E c \in Clients :
        \/ \E r \in Requests : Receive(c, r)
        \/ read_root(c)
        \/ hello(c)
        \/ ValidateAccept(c)
        \/ ValidateReject(c)
        \/ generate_flyer_prompt(c)
        \/ Deliver(c)

Spec == Init /\ [][Next]_vars

(***************************************************************************)
(* Vocabulary of the properties.                                           *)
(***************************************************************************)
\* Client c holds the answer to a generate-flyer-prompt request.
Answered(c) == pc[c] = "responded" /\ req[c].route = GenerateRoute

\* ... and the answer is a FlyerOutput.
Synthesized(c) == Answered(c) /\ resp[c].status = 200 /\ resp[c].body # <<>>

PromptOf(c) == resp[c].body[1].image_generation_prompt

TasksOf(c) == resp[c].body[1].image_editing_tasks

CountOf(c) == req[c].body["SECONDARY_IMAGES_COUNT"]

AllTextPresent(body) == \A f \in TextFields : body[f].t = "str"

\* A body that is not a FlyerInput: a text field missing or not a string, or
\* the count missing, not an integer, or outside 0..12.
Malformed(body) ==
    \/ \E f \in TextFields : body[f].t # "str"
    \/ body["SECONDARY_IMAGES_COUNT"].t # "int"
    \/ body["SECONDARY_IMAGES_COUNT"].n < 0
    \/ body["SECONDARY_IMAGES_COUNT"].n > 12

\* Texts a and b are one frame around one substituted value each: a common
\* prefix, then va in a and vb in b, then a common suffix.
SameFrame1(a, va, b, vb) ==
    \E p \in 0..(Len(a) - Len(va)) :
        /\ SubSeq(a, p + 1, p + Len(va)) = va
        /\ SubSeq(b, p + 1, p + Len(vb)) = vb
        /\ SubSeq(a, 1, p) = SubSeq(b, 1, p)
        /\ SubSeq(a, p + Len(va) + 1, Len(a)) = SubSeq(b, p + Len(vb) + 1, Len(b))

\* The same around two substituted values: prefix, va/vb, middle, wa/wb, suffix.
SameFrame2(a, va, wa, b, vb, wb) ==
    \E p \in 0..(Len(a) - Len(va) - Len(wa)) :
        /\ SubSeq(a, p + 1, p + Len(va)) = va
        /\ SubSeq(b, p + 1, p + Len(vb)) = vb
        /\ SubSeq(a, 1, p) = SubSeq(b, 1, p)
        /\ SameFrame1(SubSeq(a, p + Len(va) + 1, Len(a)), wa,
                      SubSeq(b, p + Len(vb) + 1, Len(b)), wb)

FixedSteps == {2, 3, 5, 6, 8, 10, 11, 12, 13}

(***************************************************************************)
(* The properties.                                                         *)
(***************************************************************************)
\* C1: every generation prompt the service returns has at most 1800
\* characters, however long the text fields of the request are.
C1_PromptAtMost1800 ==
    \A c \in Clients : Synthesized(c) => Len(PromptOf(c)) <= 1800

\* C1 witness: a request whose title alone is longer than 1800 characters has
\* been answered, with a prompt of exactly 1800 characters.
C1_Witness ==
    \E c \in Clients :
        /\ Synthesized(c)
        /\ Len(payload[c][1].EVENT_TITLE) > 1800
        /\ Len(PromptOf(c)) = 1800

\* C2: the editing tasks, split on newline, are exactly 13 lines and line i
\* begins with the step number i, whatever the text fields contain.
C2_ThirteenNumberedLines ==
    \A c \in Clients :
        Synthesized(c) =>
            LET lines == SplitLines(TasksOf(c))
            IN /\ DOMAIN lines = 1..13
               /\ \A i \in 1..13 : StartsWith(lines[i], ToString(i))

\* C3: with the six text fields present and well typed and an integer count,
\* the request is accepted exactly when the count lies in 0..12, and rejected
\* with a validation error otherwise.
C3_AcceptedIffCountInRange ==
    \A c \in Clients :
        (Answered(c) /\ AllTextPresent(req[c].body) /\ CountOf(c).t = "int") =>
            /\ resp[c].status = 200 <=> (CountOf(c).n >= 0 /\ CountOf(c).n <= 12)
            /\ resp[c].status \in {200, 422}

\* C3 witness: a count of 12 has been accepted and a count of 13 rejected.
C3_Witness ==
    \E c, d \in Clients :
        /\ Answered(c) /\ AllTextPresent(req[c].body)
        /\ CountOf(c) = JInt(12) /\ resp[c].status = 200
        /\ Answered(d) /\ AllTextPresent(req[d].body)
        /\ CountOf(d) = JInt(13) /\ resp[d].status = 422

C6_StepsCarryTheValues ==
    \A c \in Clients :
        Synthesized(c) =>
            LET data == payload[c][1]
                steps == EditingTasks(data)
            IN /\ TasksOf(c) = StrJoin(steps, "\n")
               /\ Contains(steps[1], data.MAIN_IMAGE_ID)
               /\ Contains(steps[4], data.CUSTOM_COLOR_SCHEME)
               /\ Contains(steps[7], ToString(data.SECONDARY_IMAGES_COUNT))
               /\ Contains(steps[9], data.EVENT_TITLE)
               /\ Contains(steps[9], data.CUSTOM_FONT)

\* C6 witness: the specification's example (Spring Gala, Garamond, Navy/Gold,
\* IMG-42, 3) has been answered.
C6_Witness ==
    \E c \in Clients :
        /\ Synthesized(c)
        /\ req[c].body = BaseBody
        /\ Contains(TasksOf(c), "IMG-42")
        /\ Contains(TasksOf(c), "Add Spring Gala using Garamond")

\* C7: a request whose text fields are all present, empty or not, with a
\* count in 0..12, is accepted and answered with a FlyerOutput.
C7_EmptyTextAccepted ==
    \A c \in Clients :
        (/\ Answered(c)
         /\ AllTextPresent(req[c].body)
         /\ CountOf(c).t = "int" /\ CountOf(c).n \in 0..12) =>
            /\ resp[c].status = 200
            /\ Len(resp[c].body) = 1

\* C7 witness: a request with all six text fields empty has been answered
\* with a FlyerOutput.
C7_Witness ==
    \E c \in Clients :
        /\ Synthesized(c)
        /\ \A f \in TextFields : req[c].body[f] = JStr("")

\* C8: the returned prompt is the prefix of the interpolated template of
\* length min(1800, its length): unchanged when it fits, else its first 1800
\* characters.
C8_PromptIsPrefixCut ==
    \A c \in Clients :
        Synthesized(c) =>
            LET full == InterpolatedPrompt(payload[c][1])
            IN /\ Len(PromptOf(c)) = Min(1800, Len(full))
               /\ PromptOf(c) = SubSeq(full, 1, Len(PromptOf(c)))
               /\ Len(full) <= 1800 => PromptOf(c) = full

\* C8 witness: one answered prompt was cut to 1800 characters and another was
\* returned whole.
C8_Witness ==
    \E c, d \in Clients :
        /\ Synthesized(c) /\ Synthesized(d)
        /\ Len(InterpolatedPrompt(payload[c][1])) > 1800
        /\ Len(PromptOf(c)) = 1800
        /\ Len(PromptOf(d)) < 1800
        /\ PromptOf(d) = InterpolatedPrompt(payload[d][1])

\* C9: for any two answered requests the 13 steps come in the same order,
\* steps 2, 3, 5, 6, 8, 10, 11, 12 and 13 are the same text, and steps 1, 4, 7
\* and 9 differ only where the values are substituted.
C9_OnlySubstitutedValuesVary ==
    \A c, d \in Clients :
        (Synthesized(c) /\ Synthesized(d)) =>
            LET x == payload[c][1]
                y == payload[d][1]
                a == EditingTasks(x)
                b == EditingTasks(y)
            IN /\ TasksOf(c) = StrJoin(a, "\n") /\ TasksOf(d) = StrJoin(b, "\n")
               /\ Len(a) = 13 /\ Len(b) = 13
               /\ \A i \in FixedSteps : a[i] = b[i]
               /\ SameFrame1(a[1], x.MAIN_IMAGE_ID, b[1], y.MAIN_IMAGE_ID)
               /\ SameFrame1(a[4], x.CUSTOM_COLOR_SCHEME, b[4], y.CUSTOM_COLOR_SCHEME)
               /\ SameFrame1(a[7], ToString(x.SECONDARY_IMAGES_COUNT),
                             b[7], ToString(y.SECONDARY_IMAGES_COUNT))
               /\ SameFrame2(a[9], x.EVENT_TITLE, x.CUSTOM_FONT,
                             b[9], y.EVENT_TITLE, y.CUSTOM_FONT)

\* C9 witness: two answered requests that differ in their count (0 and 12)
\* and so in step 7, and nowhere else in the tasks' frame.
C9_Witness ==
    \E c, d \in Clients :
        /\ Synthesized(c) /\ Synthesized(d)
        /\ payload[c][1].SECONDARY_IMAGES_COUNT = 0
        /\ payload[d][1].SECONDARY_IMAGES_COUNT = 12
        /\ TasksOf(c) # TasksOf(d)

\* C10: two requests that agree on title, type, locality, font and colour
\* scheme receive the same generation prompt, whatever their main image id
\* and count.
C10_PromptIgnoresImageAndCount ==
    \A c, d \in Clients :
        (/\ Synthesized(c) /\ Synthesized(d)
         /\ \A f \in TextFields \ {"MAIN_IMAGE_ID"} : req[c].body[f] = req[d].body[f]) =>
            PromptOf(c) = PromptOf(d)

\* C10 witness: two answered requests agree on the five fields, differ in
\* the main image id, and hold the same prompt.
C10_Witness ==
    \E c, d \in Clients :
        /\ Synthesized(c) /\ Synthesized(d)
        /\ \A f \in TextFields \ {"MAIN_IMAGE_ID"} : req[c].body[f] = req[d].body[f]
        /\ payload[c][1].MAIN_IMAGE_ID # payload[d][1].MAIN_IMAGE_ID
        /\ PromptOf(c) = PromptOf(d)

====
